---- MODULE Spec2Model ----
(***************************************************************************)
(* Model of the PostgreSQL data accessor: ObjectUtility (case conversion   *)
(* and flattening), PostgreSQLAccessor (metadata caches, statement         *)
(* construction) and PGClientFactory (the shared connection), together     *)
(* with the database that answers the statements.                          *)
(*                                                                         *)
(* JavaScript values are tagged tuples, the tag first, so that values of   *)
(* different types can be compared.  Strings that the code inspects        *)
(* character by character (object keys, column names) are sequences of     *)
(* one-character strings.  An object is the sequence of its <<key, value>> *)
(* pairs in insertion order.                                               *)
(***************************************************************************)
EXTENDS Integers, Sequences, FiniteSets, TLC

Range(seq) == {seq[i] : i \in 1..Len(seq)}
\* Array.prototype.includes
Includes(seq, e) == \E i \in 1..Len(seq) : seq[i] = e

\* ------------------------------------------------------------------------
\* JavaScript values
\* ------------------------------------------------------------------------
Undef == <<"undefined">>
Null == <<"null">>
Str(s) == <<"string", s>>
Num(n) == <<"number", n>>
Arr(elems) == <<"array", elems>>
Obj(pairs) == <<"object", pairs>>

IsObject(v) == v[1] = "object"
IsNullish(v) == v = Undef \/ v = Null
\* JavaScript truthiness of a value
Truthy(v) == /\ ~IsNullish(v)
             /\ v # Str("")
             /\ v # Num(0)

\* ------------------------------------------------------------------------
\* Objects: sequences of <<key, value>> pairs with distinct keys
\* ------------------------------------------------------------------------
ObjKeys(pairs) == [i \in 1..Len(pairs) |-> pairs[i][1]]
ObjValues(pairs) == [i \in 1..Len(pairs) |-> pairs[i][2]]
HasKey(pairs, k) == \E i \in 1..Len(pairs) : pairs[i][1] = k
\* property read: undefined when the key is absent
ObjGet(pairs, k) ==
    IF HasKey(pairs, k)
    THEN pairs[CHOOSE i \in 1..Len(pairs) : pairs[i][1] = k][2]
    ELSE Undef
\* property assignment: an existing key keeps its position
ObjSet(pairs, k, v) ==
    IF HasKey(pairs, k)
    THEN [i \in 1..Len(pairs) |-> IF pairs[i][1] = k THEN <<k, v>> ELSE pairs[i]]
    ELSE Append(pairs, <<k, v>>)
RECURSIVE ObjSpread(_, _)
\* {...a, ...b}
ObjSpread(a, b) ==
    IF b = <<>> THEN a
    ELSE ObjSpread(ObjSet(a, Head(b)[1], Head(b)[2]), Tail(b))

\* ------------------------------------------------------------------------
\* ObjectUtility.camelToSnakeCase
\* ------------------------------------------------------------------------
LowerLetters == <<"a","b","c","d","e","f","g","h","i","j","k","l","m",
                  "n","o","p","q","r","s","t","u","v","w","x","y","z">>
UpperLetters == <<"A","B","C","D","E","F","G","H","I","J","K","L","M",
                  "N","O","P","Q","R","S","T","U","V","W","X","Y","Z">>
Digits == {"0","1","2","3","4","5","6","7","8","9"}
UpperSet == Range(UpperLetters)
LowerSet == Range(LowerLetters)
\* the lower-case letter of each upper-case letter
LowerOf == [c \in UpperSet |->
              LowerLetters[CHOOSE i \in 1..Len(UpperLetters) : UpperLetters[i] = c]]
IsUpper(c) == c \in UpperSet
IsLower(c) == c \in LowerSet
IsLowerOrDigit(c) == IsLower(c) \/ c \in Digits
ToLowerChar(c) == IF IsUpper(c) THEN LowerOf[c] ELSE c
toLowerCase(str) == [i \in 1..Len(str) |-> ToLowerChar(str[i])]

RECURSIVE ReplaceFrom(_, _)
\* str.replace(/([a-z0-9]|(?=[A-Z]))([A-Z])/g, '$1_$2'), scanning from i
ReplaceFrom(str, i) ==
    IF i > Len(str) THEN <<>>
    ELSE IF i < Len(str) /\ IsLowerOrDigit(str[i]) /\ IsUpper(str[i + 1])
         THEN <<str[i], "_", str[i + 1]>> \o ReplaceFrom(str, i + 2)
    ELSE IF IsUpper(str[i])
         THEN <<"_", str[i]>> \o ReplaceFrom(str, i + 1)
    ELSE <<str[i]>> \o ReplaceFrom(str, i + 1)

camelToSnakeCase(str) == toLowerCase(ReplaceFrom(str, 1))

\* ------------------------------------------------------------------------
\* ObjectUtility.convertObjectToFlat
\* ------------------------------------------------------------------------
\* a loop that assigns every value under its key and recurses into none
FlatEntriesShallow(pairs, parentKey, acc) ==
    [i \in 1..Len(pairs) |-> <<camelToSnakeCase(pairs[i][1]), pairs[i][2]>>]

RECURSIVE FlatEntries(_, _, _)
\* the for-in loop over the entries of an object, flatObject so far in acc
FlatEntries(pairs, parentKey, acc) ==
    IF pairs = <<>> THEN acc
    ELSE LET key == Head(pairs)[1]
             val == Head(pairs)[2]
             newKey == camelToSnakeCase(IF parentKey # <<>>
                                        THEN parentKey \o <<"_">> \o key
                                        ELSE key)
         IN  IF IsObject(val)
             THEN FlatEntries(Tail(pairs), parentKey,
                              ObjSpread(acc, FlatEntries(val[2], newKey, <<>>)))
             ELSE FlatEntries(Tail(pairs), parentKey, ObjSet(acc, newKey, val))

\* [err, val]: err is "" unless the call throws
convertObjectToFlat(obj) ==
    IF IsNullish(obj) THEN [err |-> "", val |-> <<>>]
    ELSE IF ~IsObject(obj) THEN [err |-> "InvalidArgument", val |-> <<>>]
    ELSE [err |-> "", val |-> FlatEntries(obj[2], <<>>, <<>>)]

\* ------------------------------------------------------------------------
\* Names used as object keys and column names
\* ------------------------------------------------------------------------
K_id == <<"i","d">>
K_email == <<"e","m","a","i","l">>
K_name == <<"n","a","m","e">>
K_google_id == <<"g","o","o","g","l","e","_","i","d">>
K_googleId == <<"g","o","o","g","l","e","I","d">>
K_google == <<"g","o","o","g","l","e">>
K_invalid == <<"i","n","v","a","l","i","d">>
K_age == <<"a","g","e">>
K_operator == <<"o","p","e","r","a","t","o","r">>
K_value == <<"v","a","l","u","e">>

\* ------------------------------------------------------------------------
\* The database behind the connection: its tables and their constraints
\* (the users table of the integration tests, a table with a UNIQUE
\* constraint only, a table without constraints) and a name that is no
\* table.
\* ------------------------------------------------------------------------
TestTables == {"users", "tags", "logs"}

NoSchema == [columns |-> <<>>, unique |-> <<>>, primaryKey |-> <<>>]
Schema(t) ==
    CASE t = "users" -> [columns |-> <<K_id, K_email, K_name, K_google_id>>,
                         unique |-> << <<K_email>> >>,
                         primaryKey |-> <<K_id>>]
      [] t = "tags"  -> [columns |-> <<K_name>>,
                         unique |-> << <<K_name>> >>,
                         primaryKey |-> <<>>]
      [] t = "logs"  -> [columns |-> <<K_name>>,
                         unique |-> <<>>,
                         primaryKey |-> <<>>]
      \* a table with two separate UNIQUE constraints and no primary key
      [] t = "links" -> [columns |-> <<K_name, K_email>>,
                         unique |-> << <<K_name>>, <<K_email>> >>,
                         primaryKey |-> <<>>]
      [] OTHER       -> NoSchema

RECURSIVE Flatten(_)
\* concatenation of a sequence of sequences
Flatten(seqs) == IF seqs = <<>> THEN <<>> ELSE Head(seqs) \o Flatten(Tail(seqs))


\* ------------------------------------------------------------------------
\* PostgreSQLAccessor.filterWithTableColumnName
\* ------------------------------------------------------------------------
RECURSIVE FilterEntries(_, _, _)
\* the for-in loop over dataMap, filteredData so far in acc
FilterEntries(dataMap, tableColumns, acc) ==
    IF dataMap = <<>> THEN acc
    ELSE LET key == Head(dataMap)[1]
             val == Head(dataMap)[2]
         IN  IF Includes(tableColumns, key) /\ val # Undef
             THEN FilterEntries(Tail(dataMap), tableColumns, ObjSet(acc, key, val))
             ELSE FilterEntries(Tail(dataMap), tableColumns, acc)

\* a filter that treats null as it treats undefined
filterDroppingNull(cols, data, tableName) ==
    IF ~Truthy(data) THEN [err |-> "", val |-> <<>>]
    ELSE LET flat == convertObjectToFlat(data)
             notNull == IF flat.err # "" THEN <<>>
                        ELSE SelectSeq(flat.val, LAMBDA e : e[2] # Null)
         IN  IF flat.err # "" THEN [err |-> flat.err, val |-> <<>>]
             ELSE IF tableName \notin DOMAIN cols
                  THEN [err |-> "SchemaNotDiscovered", val |-> <<>>]
             ELSE [err |-> "",
                   val |-> FilterEntries(notNull, cols[tableName], <<>>)]

\* cols is the columns cache (this.columnsMap); [err, val]
filterWithTableColumnName(cols, data, tableName) ==
    IF ~Truthy(data) THEN [err |-> "", val |-> <<>>]
    ELSE LET flat == convertObjectToFlat(data)
         IN  IF flat.err # "" THEN [err |-> flat.err, val |-> <<>>]
             ELSE IF tableName \notin DOMAIN cols
                  THEN [err |-> "SchemaNotDiscovered", val |-> <<>>]
             ELSE [err |-> "",
                   val |-> FilterEntries(flat.val, cols[tableName], <<>>)]

\* ------------------------------------------------------------------------
\* PostgreSQLAccessor.toConditionClause
\* ------------------------------------------------------------------------
\* One ' AND <field> <operator> $<index>' fragment of the WHERE text
Clause(key, operator, paramIndex) ==
    [field |-> key, operator |-> operator, index |-> paramIndex]

HasOperator(value) == /\ Truthy(value)
                      /\ IsObject(value)
                      /\ Truthy(ObjGet(value[2], K_operator))

RECURSIVE ConditionEntries(_, _, _)
\* the loop over Object.entries(conditions); paramIndex is Len(params) + 1
ConditionEntries(entries, whereClause, params) ==
    IF entries = <<>> THEN [whereClause |-> whereClause, params |-> params]
    ELSE LET key == Head(entries)[1]
             value == Head(entries)[2]
             paramIndex == Len(params) + 1
             operator == IF HasOperator(value)
                         THEN ObjGet(value[2], K_operator) ELSE Str("=")
             v == IF HasOperator(value) THEN ObjGet(value[2], K_value) ELSE value
         IN  IF value # Undef /\ value # Null
             THEN ConditionEntries(Tail(entries),
                                   Append(whereClause, Clause(key, operator, paramIndex)),
                                   Append(params, v))
             ELSE ConditionEntries(Tail(entries), whereClause, params)

\* a clause builder whose placeholder is the entry's position in the
\* conditions, so that a skipped entry takes an index
toConditionClauseByPosition(conditions) ==
    IF Truthy(conditions)
    THEN LET entries == conditions[2]
             position(key) == CHOOSE i \in 1..Len(entries) : entries[i][1] = key
             built == ConditionEntries(entries, <<>>, <<>>)
         IN  [whereClause |->
                  [k \in 1..Len(built.whereClause) |->
                      Clause(built.whereClause[k].field,
                             built.whereClause[k].operator,
                             position(built.whereClause[k].field))],
              params |-> built.params]
    ELSE [whereClause |-> <<>>, params |-> <<>>]

toConditionClause(conditions) ==
    IF Truthy(conditions)
    THEN ConditionEntries(conditions[2], <<>>, <<>>)
    ELSE [whereClause |-> <<>>, params |-> <<>>]

\* ------------------------------------------------------------------------
\* Statements.  The SQL text is kept as its parts: the verb, the table, the
\* INSERT column list, the VALUES placeholders, the ON CONFLICT columns, the
\* SET list (<<column, placeholder>>), the WHERE fragments and RETURNING.
\* ------------------------------------------------------------------------
Statement(verb, table, columns, values, conflict, set, where, returning) ==
    [verb |-> verb, table |-> table, columns |-> columns, values |-> values,
     conflict |-> conflict, set |-> set, where |-> where, returning |-> returning]

\* the three catalog lookups of addTable, each with parameters [tableName]
CatalogQuery(kind) == Statement(kind, "information_schema", <<>>, <<>>, <<>>, <<>>, <<>>, FALSE)

\* upsert: INSERT INTO t (keys) VALUES ($1..$n) ON CONFLICT (uniqueColumns)
\*         DO UPDATE SET key_i = $i RETURNING *
UpsertQuery(tableName, keys, uniqueColumns) ==
    Statement("INSERT", tableName, keys, [i \in 1..Len(keys) |-> i], uniqueColumns,
              [i \in 1..Len(keys) |-> <<keys[i], i>>], <<>>, TRUE)

\* update: UPDATE t SET key_i = $i WHERE 1 = 1 whereClause RETURNING *
UpdateQuery(tableName, keys, whereClause) ==
    Statement("UPDATE", tableName, <<>>, <<>>, <<>>,
              [i \in 1..Len(keys) |-> <<keys[i], i>>], whereClause, TRUE)

\* read: SELECT * FROM t WHERE 1 = 1 whereClause
ReadQuery(tableName, whereClause) ==
    Statement("SELECT", tableName, <<>>, <<>>, <<>>, <<>>, whereClause, FALSE)

\* delete: DELETE FROM t WHERE 1 = 1 whereClause RETURNING *
DeleteQuery(tableName, whereClause) ==
    Statement("DELETE", tableName, <<>>, <<>>, <<>>, <<>>, whereClause, TRUE)

\* Map.prototype.get: undefined when the key has no entry
MapGet(map, key) == IF key \in DOMAIN map THEN Arr(map[key]) ELSE Undef
\* a set that drops the entries of the other keys
MapSetAlone(map, key, val) == [k \in {key} |-> val]

\* Map.prototype.set
MapSet(map, key, val) ==
    [k \in DOMAIN map \cup {key} |-> IF k = key THEN val ELSE map[k]]
\* !uniqueColumns || uniqueColumns.length === 0
MissingOrEmpty(columns) == columns = Undef \/ Len(columns[2]) = 0

\* a choice that prefers the unique columns to the primary key
ConflictTargetUniqueFirst(pkMap, uniqueMap, tableName) ==
    LET fromUnique == MapGet(uniqueMap, tableName)
        uniqueColumns == IF MissingOrEmpty(fromUnique)
                         THEN MapGet(pkMap, tableName)
                         ELSE fromUnique
    IN  IF MissingOrEmpty(uniqueColumns)
        THEN [err |-> "NoUniqueConstraint", val |-> <<>>]
        ELSE [err |-> "", val |-> uniqueColumns[2]]

\* a choice that rejects an absent list but accepts an empty one
ConflictTargetAbsentOnly(pkMap, uniqueMap, tableName) ==
    LET fromPk == MapGet(pkMap, tableName)
        uniqueColumns == IF MissingOrEmpty(fromPk)
                         THEN MapGet(uniqueMap, tableName)
                         ELSE fromPk
    IN  IF uniqueColumns = Undef
        THEN [err |-> "NoUniqueConstraint", val |-> <<>>]
        ELSE [err |-> "", val |-> uniqueColumns[2]]

\* upsert's choice of the ON CONFLICT columns: [err, val]
ConflictTarget(pkMap, uniqueMap, tableName) ==
    LET fromPk == MapGet(pkMap, tableName)
        uniqueColumns == IF MissingOrEmpty(fromPk)
                         THEN MapGet(uniqueMap, tableName)
                         ELSE fromPk
    IN  IF MissingOrEmpty(uniqueColumns)
        THEN [err |-> "NoUniqueConstraint", val |-> <<>>]
        ELSE [err |-> "", val |-> uniqueColumns[2]]

\* ------------------------------------------------------------------------
\* The database's execution of a statement.  A row is an object with the
\* table's columns as keys, in column order.  The id column is a serial
\* integer; the other columns are text.
\* ------------------------------------------------------------------------
SqlOperators == {Str("="), Str(">")}
IsSerial(col) == col = K_id

MaxOf(S) == IF S = {} THEN 0 ELSE CHOOSE m \in S : \A n \in S : n <= m
\* the highest placeholder $n of the statement text
ParamsNeeded(stmt) ==
    MaxOf(Range(stmt.values)
          \cup {stmt.set[i][2] : i \in 1..Len(stmt.set)}
          \cup {stmt.where[i].index : i \in 1..Len(stmt.where)})

\* the value a parameter has for the column it is compared with or stored in
TypeError(col, param) ==
    IsSerial(col) /\ ~(IsNullish(param) \/ param[1] = "number")

\* col <operator> param on a row; a comparison with NULL selects nothing
Compare(val, operator, param) ==
    IF IsNullish(val) \/ IsNullish(param) THEN FALSE
    ELSE IF operator = Str(">") THEN val[2] > param[2]
    ELSE val = param

Matches(row, where, params) ==
    \A i \in 1..Len(where) :
        Compare(ObjGet(row, where[i].field), where[i].operator, params[where[i].index])

\* why the database rejects the WHERE part, "" when it does not
WhereError(stmt, params) ==
    LET columns == Schema(stmt.table).columns
    IN  IF \E i \in 1..Len(stmt.where) : ~Includes(columns, stmt.where[i].field)
        THEN "UndefinedColumn"
        ELSE IF \E i \in 1..Len(stmt.where) : stmt.where[i].operator \notin SqlOperators
        THEN "SyntaxError"
        ELSE IF \E i \in 1..Len(stmt.where) :
                    \/ TypeError(stmt.where[i].field, params[stmt.where[i].index])
                    \/ (stmt.where[i].operator = Str(">") /\ ~IsSerial(stmt.where[i].field))
        THEN "DataTypeError"
        ELSE ""

\* why the database rejects the SET / VALUES part, "" when it does not
AssignError(stmt, params) ==
    LET columns == Schema(stmt.table).columns
    IN  IF \E c \in Range(stmt.columns) \cup {stmt.set[i][1] : i \in 1..Len(stmt.set)} :
               ~Includes(columns, c)
        THEN "UndefinedColumn"
        ELSE IF \E i \in 1..Len(stmt.set) :
                    \/ TypeError(stmt.set[i][1], params[stmt.set[i][2]])
                    \/ params[stmt.set[i][2]][1] \in {"object", "array"}
        THEN "DataTypeError"
        ELSE ""

\* the row with the SET list applied
RECURSIVE ApplySet(_, _, _)
ApplySet(row, set, params) ==
    IF set = <<>> THEN row
    ELSE ApplySet(ObjSet(row, Head(set)[1],
                         IF params[Head(set)[2]] = Undef THEN Null
                         ELSE params[Head(set)[2]]),
                  Tail(set), params)

\* two rows agree on all of the columns, none of them NULL
SameKey(r1, r2, columns) ==
    \A i \in 1..Len(columns) :
        /\ ~IsNullish(ObjGet(r1, columns[i]))
        /\ ObjGet(r1, columns[i]) = ObjGet(r2, columns[i])

\* the PRIMARY KEY and UNIQUE constraints of a table, each a column list
Constraints(table) ==
    (IF Schema(table).primaryKey = <<>> THEN {} ELSE {Schema(table).primaryKey})
    \cup Range(Schema(table).unique)

\* rows[j] := row would break a constraint of the table (j = 0: a new row)
Violates(table, rows, j, row) ==
    \/ \E i \in 1..Len(Schema(table).primaryKey) :
           IsNullish(ObjGet(row, Schema(table).primaryKey[i]))
    \/ \E c \in Constraints(table) :
       \E k \in 1..Len(rows) : k # j /\ SameKey(row, rows[k], c)

K_column_name == <<"c","o","l","u","m","n","_","n","a","m","e">>

Failed(database, err) == [err |-> err, rows |-> <<>>, database |-> database]
Done(database, rows) == [err |-> "", rows |-> rows, database |-> database]

\* the result rows of a catalog lookup: one {column_name} row per column
CatalogRows(columns) ==
    [i \in 1..Len(columns) |-> << <<K_column_name, Str(columns[i])>> >>]

SelectIndexes(rows, where, params) ==
    {i \in 1..Len(rows) : Matches(rows[i], where, params)}

RECURSIVE SubSeq2(_, _, _)
\* the elements of seq at the indexes in S, in order, from index i on
SubSeq2(seq, S, i) ==
    IF i > Len(seq) THEN <<>>
    ELSE (IF i \in S THEN <<seq[i]>> ELSE <<>>) \o SubSeq2(seq, S, i + 1)

\* INSERT ... ON CONFLICT (target) DO UPDATE SET ... RETURNING *
ExecuteInsert(database, stmt, params) ==
    LET table == stmt.table
        rows == database[table]
        columns == Schema(table).columns
        \* the serial default: an id that no row of the table has
        nextId == 1 + MaxOf({ObjGet(rows[k], K_id)[2] : k \in 1..Len(rows)})
        defaults == [i \in 1..Len(columns) |->
                        <<columns[i], IF IsSerial(columns[i]) THEN Num(nextId) ELSE Null>>]
        proposed == ApplySet(defaults,
                             [i \in 1..Len(stmt.columns) |-> <<stmt.columns[i], stmt.values[i]>>],
                             params)
        hit == {k \in 1..Len(rows) : SameKey(proposed, rows[k], stmt.conflict)}
    IN  IF \A c \in Constraints(table) : Range(c) # Range(stmt.conflict)
        THEN Failed(database, "NoMatchingConstraint")
        ELSE IF AssignError(stmt, params) # ""
        THEN Failed(database, AssignError(stmt, params))
        ELSE IF hit # {}
        THEN LET k == CHOOSE k \in hit : TRUE
                 updated == ApplySet(rows[k], stmt.set, params)
             IN  IF Violates(table, rows, k, updated)
                 THEN Failed(database, "UniqueViolation")
                 ELSE Done([database EXCEPT ![table][k] = updated], <<updated>>)
        ELSE IF Violates(table, rows, 0, proposed)
        THEN Failed(database, "UniqueViolation")
        ELSE Done([database EXCEPT ![table] = Append(rows, proposed)], <<proposed>>)

\* UPDATE ... SET ... WHERE ... RETURNING *
ExecuteUpdate(database, stmt, params) ==
    LET table == stmt.table
        rows == database[table]
        S == SelectIndexes(rows, stmt.where, params)
        updated == [i \in 1..Len(rows) |->
                       IF i \in S THEN ApplySet(rows[i], stmt.set, params) ELSE rows[i]]
    IN  IF AssignError(stmt, params) # ""
        THEN Failed(database, AssignError(stmt, params))
        ELSE IF \E i \in S : Violates(table, updated, i, updated[i])
        THEN Failed(database, "UniqueViolation")
        ELSE Done([database EXCEPT ![table] = updated], SubSeq2(updated, S, 1))

\* SELECT * FROM ... WHERE ...
ExecuteSelect(database, stmt, params) ==
    LET rows == database[stmt.table]
    IN  Done(database, SubSeq2(rows, SelectIndexes(rows, stmt.where, params), 1))

\* DELETE FROM ... WHERE ... RETURNING *
ExecuteDelete(database, stmt, params) ==
    LET rows == database[stmt.table]
        S == SelectIndexes(rows, stmt.where, params)
    IN  Done([database EXCEPT ![stmt.table] = SubSeq2(rows, (1..Len(rows)) \ S, 1)],
             SubSeq2(rows, S, 1))

\* what the database answers to client.query(stmt, params)
ExecuteQuery(database, stmt, params) ==
    IF stmt.verb \in {"COLUMNS", "UNIQUE", "PRIMARY KEY"}
    THEN LET schema == Schema(params[1][2])
         IN  Done(database,
                  CatalogRows(CASE stmt.verb = "COLUMNS" -> schema.columns
                                [] stmt.verb = "UNIQUE" -> Flatten(schema.unique)
                                [] OTHER -> schema.primaryKey))
    ELSE IF stmt.table \notin DOMAIN database
    THEN Failed(database, "UndefinedTable")
    ELSE IF Len(params) # ParamsNeeded(stmt)
    THEN Failed(database, "ParameterCountMismatch")
    ELSE IF WhereError(stmt, params) # ""
    THEN Failed(database, WhereError(stmt, params))
    ELSE CASE stmt.verb = "INSERT" -> ExecuteInsert(database, stmt, params)
           [] stmt.verb = "UPDATE" -> ExecuteUpdate(database, stmt, params)
           [] stmt.verb = "SELECT" -> ExecuteSelect(database, stmt, params)
           [] OTHER -> ExecuteDelete(database, stmt, params)

\* ------------------------------------------------------------------------
\* Bounds of the model
\* ------------------------------------------------------------------------
\* Client objects constructed in a run
MaxClients == 2
\* connection attempts and catalog lookups that the environment makes fail
MaxFaults == 1
\* statements that change the rows of the database in a run
MaxWrites == 1
\* required environment variables that are unset at a time
MaxMissing == 1
\* characters of a name given to camelToSnakeCase
MaxLen == 4
\* calls that are in progress at the same time
MaxTasks == 2

\* ------------------------------------------------------------------------
\* State
\* ------------------------------------------------------------------------
VARIABLES
    columnsMap,            \* this.columnsMap: table name -> column names
    uniqueColumnsMap,      \* this.uniqueColumnsMap
    primaryKeyColumnsMap,  \* this.primaryKeyColumnsMap
    client,                \* this.client: 0 (undefined) or a Client object
    factoryClient,         \* PGClientFactory._client: 0 (null) or a Client object
    clients,               \* the Client objects constructed so far
    database,              \* the rows of each table of the database
    writes,                \* statements that have changed the database
    faults,                \* failures the environment has caused
    lastCall,              \* the last call made on the accessor and its outcome
    processEnv,            \* the names of the variables set in process.env
    factoryCopy,           \* which of the two PGClientFactory classes is loaded
    peer,                  \* this.client of a second accessor instance
    tasks                  \* the calls started and not awaited, each where it stands

vars == <<columnsMap, uniqueColumnsMap, primaryKeyColumnsMap, client, factoryClient,
          clients, database, writes, faults, lastCall, processEnv, factoryCopy, peer, tasks>>

cacheVars == <<columnsMap, uniqueColumnsMap, primaryKeyColumnsMap>>
dbVars == <<database, writes>>
envVars == <<processEnv, factoryCopy>>

\* the tables of the database the process is connected to, and the names
\* given to the accessor: those and a name that is no table
ExistingTables == DOMAIN database
Tables == ExistingTables \cup {"ghost"}

\* The environment variables getPGClient requires and those that are set
RequiredEnvVars == {"DB_USER", "DB_NAME", "DB_PASSWORD", "DB_HOST", "DB_PORT", "DB_SCHEMA"}
ProcessEnv == processEnv
\* the file holds two PGClientFactory classes; they differ in the validation
\* of the environment, which only the later one has
FactoryCopies == {"earlier", "later"}

UserRow(id, email, name, googleId) ==
    << <<K_id, id>>, <<K_email, email>>, <<K_name, name>>, <<K_google_id, googleId>> >>

LogRow(name) == << <<K_name, name>> >>

\* the calls in progress and a call that is not
Tasks == 1..MaxTasks
NoTask == [pc |-> "idle", table |-> "", handle |-> 0, err |-> ""]

NoCall == [op |-> "none", table |-> "", data |-> Undef, conditions |-> Undef,
           err |-> "", ret |-> Undef, issued |-> <<>>]

\* new Map()
EmptyMap == [t \in {} |-> <<>>]

Init ==
    /\ columnsMap = EmptyMap
    /\ uniqueColumnsMap = EmptyMap
    /\ primaryKeyColumnsMap = EmptyMap
    /\ client = 0
    /\ factoryClient = 0
    /\ clients = <<>>
    /\ database = [t \in TestTables |->
                      IF t = "users" THEN <<UserRow(Num(1), Str("a"), Str("J"), Null)>>
                      ELSE <<>>]
    /\ writes = 0
    /\ faults = 0
    /\ lastCall = NoCall
    /\ processEnv = RequiredEnvVars
    /\ factoryCopy = "later"
    /\ peer = 0
    /\ tasks = [i \in Tasks |-> NoTask]

\* ------------------------------------------------------------------------
\* PGClientFactory
\* ------------------------------------------------------------------------
\* what connect() and the SET search_path statement of a new client may do
ConnectOutcomes == {"ok", "connectFails", "searchPathFails"}

\* a getPGClient that constructs a Client on every call
getPGClientFresh(fc, cl, outcome) ==
    [err |-> "", ret |-> Len(cl) + 1, factoryClient |-> Len(cl) + 1,
     clients |-> Append(cl, [connected |-> TRUE, ended |-> FALSE])]

\* getPGClient: [err, ret, factoryClient, clients]; outcome is what the
\* connection attempt does when one is made
getPGClient(fc, cl, outcome) ==
    LET missingVars == RequiredEnvVars \ ProcessEnv
        id == Len(cl) + 1
    IN  IF factoryCopy = "later" /\ missingVars # {}
        THEN [err |-> "ConfigurationError", ret |-> 0, factoryClient |-> fc, clients |-> cl]
        ELSE IF fc = 0
        THEN CASE outcome = "connectFails" ->
                    [err |-> "ConnectionError", ret |-> 0, factoryClient |-> id,
                     clients |-> Append(cl, [connected |-> FALSE, ended |-> FALSE])]
               [] outcome = "searchPathFails" ->
                    [err |-> "ConnectionError", ret |-> 0, factoryClient |-> id,
                     clients |-> Append(cl, [connected |-> TRUE, ended |-> FALSE])]
               [] OTHER ->
                    [err |-> "", ret |-> id, factoryClient |-> id,
                     clients |-> Append(cl, [connected |-> TRUE, ended |-> FALSE])]
        ELSE [err |-> "", ret |-> fc, factoryClient |-> fc, clients |-> cl]

\* a closeConnection that keeps the handle it has ended
closeConnectionKeepsHandle(fc, cl) ==
    IF fc # 0 /\ cl[fc].connected
    THEN [factoryClient |-> fc, clients |-> [cl EXCEPT ![fc].ended = TRUE]]
    ELSE [factoryClient |-> fc, clients |-> cl]

\* closeConnection: end() on the stored client when it is connected, and the
\* stored client reset to null: [factoryClient, clients]
closeConnection(fc, cl) ==
    IF fc # 0 /\ cl[fc].connected
    THEN [factoryClient |-> 0, clients |-> [cl EXCEPT ![fc].ended = TRUE]]
    ELSE [factoryClient |-> fc, clients |-> cl]

\* the guard of getPGClient's construction of a Client: the model's bound
CanConstruct == factoryClient # 0 \/ Len(clients) < MaxClients

\* an operation that calls initialize() whether or not it holds a handle
LazyInitializeAlways(outcome) ==
    getPGClient(factoryClient, clients, outcome)

\* if (!this.client) await this.initialize(): [err, ret, factoryClient, clients]
LazyInitialize(outcome) ==
    IF client = 0
    THEN getPGClient(factoryClient, clients, outcome)
    ELSE [err |-> "", ret |-> client, factoryClient |-> factoryClient, clients |-> clients]

\* client.query(stmt, params) on Client object h
ClientQuery(cl, h, stmt, params) ==
    IF cl[h].connected /\ ~cl[h].ended
    THEN ExecuteQuery(database, stmt, params)
    ELSE Failed(database, "ConnectionError")

\* one call of client.query as recorded in lastCall.issued
Issued(stmt, params) == [stmt |-> stmt, params |-> params]

\* ------------------------------------------------------------------------
\* The bodies of the data operations after lazy initialization, on Client
\* object h: [err, ret, issued, database]
\* ------------------------------------------------------------------------
Thrown(err) ==
    [err |-> err, ret |-> Undef, issued |-> <<>>, database |-> database]

\* result.rows of a query, or its error, with the statement issued
Returned(res, stmt, params) ==
    [err |-> res.err, ret |-> IF res.err = "" THEN Arr(res.rows) ELSE Undef,
     issued |-> <<Issued(stmt, params)>>, database |-> res.database]

\* an upsert that looks for the conflict target before it counts the columns
upsertUniqueCheckFirst(cl, h, tableName, data, conditions) ==
    LET filteredData == filterWithTableColumnName(columnsMap, data, tableName)
        keys == ObjKeys(filteredData.val)
        values == ObjValues(filteredData.val)
        conditionParams == toConditionClause(conditions).params
        allParams == values \o conditionParams
        uniqueColumns == ConflictTarget(primaryKeyColumnsMap, uniqueColumnsMap, tableName)
        query == UpsertQuery(tableName, keys, uniqueColumns.val)
        result == ClientQuery(cl, h, query, allParams)
    IN  IF filteredData.err # "" THEN Thrown(filteredData.err)
        ELSE IF uniqueColumns.err # "" THEN Thrown(uniqueColumns.err)
        ELSE IF Len(keys) = 0 THEN Thrown("NoValidColumns")
        ELSE Returned(result, query, allParams)

upsert(cl, h, tableName, data, conditions) ==
    LET filteredData == filterWithTableColumnName(columnsMap, data, tableName)
        keys == ObjKeys(filteredData.val)
        values == ObjValues(filteredData.val)
        conditionParams == toConditionClause(conditions).params
        allParams == values \o conditionParams
        uniqueColumns == ConflictTarget(primaryKeyColumnsMap, uniqueColumnsMap, tableName)
        query == UpsertQuery(tableName, keys, uniqueColumns.val)
        result == ClientQuery(cl, h, query, allParams)
    IN  IF filteredData.err # "" THEN Thrown(filteredData.err)
        ELSE IF Len(keys) = 0 THEN Thrown("NoValidColumns")
        ELSE IF uniqueColumns.err # "" THEN Thrown(uniqueColumns.err)
        ELSE Returned(result, query, allParams)

\* an update that passes the condition values before the data values
updateConditionsFirst(cl, h, tableName, data, conditions) ==
    LET filteredData == filterWithTableColumnName(columnsMap, data, tableName)
        cond == toConditionClause(conditions)
        updateParams == ObjValues(filteredData.val)
        allParams == cond.params \o updateParams
        query == UpdateQuery(tableName, ObjKeys(filteredData.val), cond.whereClause)
        result == ClientQuery(cl, h, query, allParams)
    IN  IF filteredData.err # "" THEN Thrown(filteredData.err)
        ELSE IF Len(ObjKeys(filteredData.val)) = 0 THEN Thrown("NoValidColumns")
        ELSE Returned(result, query, allParams)

update(cl, h, tableName, data, conditions) ==
    LET filteredData == filterWithTableColumnName(columnsMap, data, tableName)
        cond == toConditionClause(conditions)
        updateParams == ObjValues(filteredData.val)
        allParams == updateParams \o cond.params
        query == UpdateQuery(tableName, ObjKeys(filteredData.val), cond.whereClause)
        result == ClientQuery(cl, h, query, allParams)
    IN  IF filteredData.err # "" THEN Thrown(filteredData.err)
        ELSE IF Len(ObjKeys(filteredData.val)) = 0 THEN Thrown("NoValidColumns")
        ELSE Returned(result, query, allParams)

\* a read that leaves the conditions out of the statement
readAllRows(cl, h, tableName, conditions) ==
    LET query == ReadQuery(tableName, <<>>)
        result == ClientQuery(cl, h, query, <<>>)
    IN  Returned(result, query, <<>>)

read(cl, h, tableName, conditions) ==
    LET cond == toConditionClause(IF conditions = Undef THEN Obj(<<>>) ELSE conditions)
        query == ReadQuery(tableName, cond.whereClause)
        result == ClientQuery(cl, h, query, cond.params)
    IN  Returned(result, query, cond.params)

\* a delete that refuses to run without a restricting condition
deleteRestrictedOnly(cl, h, tableName, conditions) ==
    LET cond == toConditionClause(conditions)
        query == DeleteQuery(tableName, cond.whereClause)
        result == ClientQuery(cl, h, query, cond.params)
    IN  IF cond.params = <<>> THEN Thrown("InvalidArgument")
        ELSE Returned(result, query, cond.params)

delete(cl, h, tableName, conditions) ==
    LET cond == toConditionClause(conditions)
        query == DeleteQuery(tableName, cond.whereClause)
        result == ClientQuery(cl, h, query, cond.params)
    IN  Returned(result, query, cond.params)

\* query(query, params): the caller's own statement
query(cl, h, stmt, params) ==
    Returned(ClientQuery(cl, h, stmt, params), stmt, params)

\* ------------------------------------------------------------------------
\* PostgreSQLAccessor.addTable and its three catalog lookups
\* ------------------------------------------------------------------------
\* res.rows.map(row => row.column_name)
ColumnNames(rows) == [i \in 1..Len(rows) |-> ObjGet(rows[i], K_column_name)[2]]

\* a lookup that stores its answer as the list of every table of the map
CatalogResultShared(kind, map, tableName, res) ==
    [err |-> res.err,
     map |-> IF res.err = ""
             THEN [k \in DOMAIN map \cup {tableName} |-> ColumnNames(res.rows)]
             ELSE map,
     issued |-> <<Issued(CatalogQuery(kind), <<Str(tableName)>>)>>]

\* what a lookup makes of the answer res to its query: [err, map, issued]
CatalogResult(kind, map, tableName, res) ==
    [err |-> res.err,
     map |-> IF res.err = "" THEN MapSet(map, tableName, ColumnNames(res.rows)) ELSE map,
     issued |-> <<Issued(CatalogQuery(kind), <<Str(tableName)>>)>>]

\* one lookup; it fails when the environment makes it fail
CatalogLookup(kind, map, cl, h, tableName, fails) ==
    CatalogResult(kind, map, tableName,
                  IF fails THEN Failed(database, "DatabaseError")
                  ELSE ClientQuery(cl, h, CatalogQuery(kind), <<Str(tableName)>>))

addTableColumns(cl, h, tableName, fails) ==
    CatalogLookup("COLUMNS", columnsMap, cl, h, tableName, fails)
addUniqueTableColumns(cl, h, tableName, fails) ==
    CatalogLookup("UNIQUE", uniqueColumnsMap, cl, h, tableName, fails)
addPrimaryKeyColumns(cl, h, tableName, fails) ==
    CatalogLookup("PRIMARY KEY", primaryKeyColumnsMap, cl, h, tableName, fails)

\* addTable after lazy initialization; failAt is the lookup the environment
\* makes fail (0: none): [err, columns, unique, primaryKey, issued]
\* a sequence that rolls the caches back when a lookup fails
SequencedAllOrNothing(c, u, p) ==
    IF c.err # "" \/ u.err # "" \/ p.err # ""
    THEN [err |-> IF c.err # "" THEN c.err ELSE IF u.err # "" THEN u.err ELSE p.err,
          columns |-> columnsMap, unique |-> uniqueColumnsMap,
          primaryKey |-> primaryKeyColumnsMap,
          issued |-> IF c.err # "" THEN c.issued
                     ELSE IF u.err # "" THEN c.issued \o u.issued
                     ELSE c.issued \o u.issued \o p.issued]
    ELSE [err |-> "", columns |-> c.map, unique |-> u.map,
          primaryKey |-> p.map, issued |-> c.issued \o u.issued \o p.issued]

\* the three awaits in sequence: the first lookup that fails ends the call
Sequenced(c, u, p) ==
    IF c.err # ""
    THEN [err |-> c.err, columns |-> c.map, unique |-> uniqueColumnsMap,
          primaryKey |-> primaryKeyColumnsMap, issued |-> c.issued]
    ELSE IF u.err # ""
    THEN [err |-> u.err, columns |-> c.map, unique |-> u.map,
          primaryKey |-> primaryKeyColumnsMap, issued |-> c.issued \o u.issued]
    ELSE [err |-> p.err, columns |-> c.map, unique |-> u.map,
          primaryKey |-> p.map, issued |-> c.issued \o u.issued \o p.issued]

addTable(cl, h, tableName, failAt) ==
    Sequenced(addTableColumns(cl, h, tableName, failAt = 1),
              addUniqueTableColumns(cl, h, tableName, failAt = 2),
              addPrimaryKeyColumns(cl, h, tableName, failAt = 3))

\* ------------------------------------------------------------------------
\* Arguments of the calls
\* ------------------------------------------------------------------------
DataInputs ==
    { Undef, Null, Obj(<<>>), Str("x"),
      Obj(<< <<K_id, Num(1)>>, <<K_name, Str("J")>> >>),
      Obj(<< <<K_email, Str("a")>>, <<K_name, Str("J")>> >>),
      Obj(<< <<K_email, Str("b")>>, <<K_name, Str("J")>> >>),
      Obj(<< <<K_email, Str("b")>>, <<K_name, Null>>, <<K_invalid, Str("X")>> >>),
      Obj(<< <<K_name, Str("J")>>, <<K_invalid, Str("X")>> >>),
      Obj(<< <<K_name, Undef>>, <<K_googleId, Str("g")>> >>),
      Obj(<< <<K_google, Obj(<< <<K_id, Str("g")>> >>)>>, <<K_email, Str("b")>> >>),
      Obj(<< <<K_invalid, Arr(<<Str("a"), Str("b")>>)>> >>) }

\* the data written by upsert and update
WriteData ==
    { Undef,
      Obj(<< <<K_id, Num(1)>>, <<K_name, Str("J")>> >>),
      Obj(<< <<K_email, Str("a")>>, <<K_name, Str("J")>> >>),
      Obj(<< <<K_email, Str("b")>>, <<K_name, Str("J")>> >>),
      Obj(<< <<K_name, Str("J")>>, <<K_invalid, Str("X")>> >>),
      Obj(<< <<K_invalid, Arr(<<Str("a"), Str("b")>>)>> >>) }

ConditionInputs ==
    { Undef, Null, Obj(<<>>),
      Obj(<< <<K_id, Num(1)>> >>),
      Obj(<< <<K_email, Str("a")>> >>),
      Obj(<< <<K_age, Null>>, <<K_email, Undef>> >>),
      Obj(<< <<K_name, Str("J")>>, <<K_age, Null>>, <<K_email, Undef>> >>),
      Obj(<< <<K_age, Null>>, <<K_email, Str("a")>> >>),
      Obj(<< <<K_age, Obj(<< <<K_operator, Str(">")>>, <<K_value, Num(18)>> >>)>>,
             <<K_name, Str("J")>> >>),
      Obj(<< <<K_id, Obj(<< <<K_operator, Str(">")>>, <<K_value, Num(0)>> >>)>> >>),
      Obj(<< <<K_id, Obj(<< <<K_operator, Str(">")>>, <<K_value, Null>> >>)>> >>),
      Obj(<< <<K_email, Obj(<< <<K_value, Str("a")>> >>)>> >>) }

\* the conditions given to upsert and update
WriteConditions ==
    { Undef, Obj(<<>>),
      Obj(<< <<K_age, Null>>, <<K_email, Undef>> >>),
      Obj(<< <<K_email, Str("a")>> >>),
      Obj(<< <<K_age, Obj(<< <<K_operator, Str(">")>>, <<K_value, Num(18)>> >>)>>,
             <<K_name, Str("J")>> >>) }

\* the statements given to query, each with its parameters
QueryInputs ==
    { Issued(ReadQuery("users", <<>>), <<>>),
      Issued(ReadQuery("users", <<Clause(K_id, Str("="), 1)>>), <<Num(1)>>) }

\* ------------------------------------------------------------------------
\* Actions: one per call on the accessor
\* ------------------------------------------------------------------------
\* what a connection attempt may do, where the call makes one
Outcomes == IF client = 0 /\ factoryClient = 0 /\ faults < MaxFaults
            THEN ConnectOutcomes ELSE {"ok"}
\* the caller awaits each call before it makes the next one
Idle == lastCall.op = "none"
CanInitialize == Idle /\ (client # 0 \/ CanConstruct)

Call(op, tableName, data, conditions, err, ret, issued) ==
    [op |-> op, table |-> tableName, data |-> data, conditions |-> conditions,
     err |-> err, ret |-> ret, issued |-> issued]

\* a data operation: lazy initialization, then its body r on the handle
DataOperation(op, tableName, data, conditions, init, r) ==
    /\ factoryClient' = init.factoryClient
    /\ clients' = init.clients
    /\ IF init.err # ""
       THEN /\ client' = client
            /\ UNCHANGED dbVars
            /\ lastCall' = Call(op, tableName, data, conditions, init.err, Undef, <<>>)
       ELSE /\ client' = init.ret
            /\ database' = r.database
            /\ writes' = IF r.database # database THEN writes + 1 ELSE writes
            /\ writes' <= MaxWrites
            /\ lastCall' = Call(op, tableName, data, conditions, r.err, r.ret, r.issued)
    /\ faults' = IF init.err # "" THEN faults + 1 ELSE faults
    /\ UNCHANGED <<cacheVars, envVars, peer, tasks>>

Initialize ==
    /\ Idle
    /\ CanConstruct
    /\ \E outcome \in (IF factoryClient = 0 /\ faults < MaxFaults
                       THEN ConnectOutcomes ELSE {"ok"}) :
         LET init == getPGClient(factoryClient, clients, outcome)
         IN  /\ factoryClient' = init.factoryClient
             /\ clients' = init.clients
             /\ client' = IF init.err = "" THEN init.ret ELSE client
             /\ faults' = IF init.err = "ConnectionError" THEN faults + 1 ELSE faults
             /\ lastCall' = Call("initialize", "", Undef, Undef, init.err, Undef, <<>>)
    /\ UNCHANGED <<cacheVars, dbVars, envVars, peer, tasks>>

\* schema discovery: lazy initialization, then its body r on the handle
Discovery(tableName, failAt, init, r) ==
    /\ factoryClient' = init.factoryClient
    /\ clients' = init.clients
    /\ IF init.err # ""
       THEN /\ client' = client
            /\ faults' = faults + 1
            /\ UNCHANGED cacheVars
            /\ lastCall' = Call("addTable", tableName, Undef, Undef,
                                init.err, Undef, <<>>)
       ELSE /\ client' = init.ret
            /\ columnsMap' = r.columns
            /\ uniqueColumnsMap' = r.unique
            /\ primaryKeyColumnsMap' = r.primaryKey
            /\ faults' = IF failAt > 0 THEN faults + 1 ELSE faults
            /\ lastCall' = Call("addTable", tableName, Undef, Undef,
                                r.err, Undef, r.issued)
    /\ UNCHANGED <<dbVars, envVars, peer, tasks>>

AddTable ==
    /\ CanInitialize
    /\ \E tableName \in Tables, outcome \in Outcomes,
          failAt \in (IF faults < MaxFaults THEN 0..3 ELSE {0}) :
         LET init == LazyInitialize(outcome)
         IN  Discovery(tableName, failAt, init,
                       addTable(init.clients, init.ret, tableName, failAt))

FilterWithTableColumnName ==
    /\ Idle
    /\ \E tableName \in Tables, data \in DataInputs :
         LET r == filterWithTableColumnName(columnsMap, data, tableName)
         IN  lastCall' = Call("filterWithTableColumnName", tableName, data, Undef, r.err,
                              IF r.err = "" THEN Obj(r.val) ELSE Undef, <<>>)
    /\ UNCHANGED <<cacheVars, client, factoryClient, clients, dbVars, faults, envVars, peer, tasks>>

ToConditionClause ==
    /\ Idle
    /\ \E conditions \in ConditionInputs :
         LET r == toConditionClause(conditions)
         IN  lastCall' = Call("toConditionClause", "", Undef, conditions, "",
                              <<"clause", r.whereClause, r.params>>, <<>>)
    /\ UNCHANGED <<cacheVars, client, factoryClient, clients, dbVars, faults, envVars, peer, tasks>>

Upsert ==
    /\ CanInitialize
    /\ \E tableName \in Tables, data \in WriteData, conditions \in WriteConditions,
          outcome \in Outcomes :
         LET init == LazyInitialize(outcome)
         IN  DataOperation("upsert", tableName, data, conditions, init,
                           upsert(init.clients, init.ret, tableName, data, conditions))

Update ==
    /\ CanInitialize
    /\ \E tableName \in Tables, data \in WriteData, conditions \in WriteConditions,
          outcome \in Outcomes :
         LET init == LazyInitialize(outcome)
         IN  DataOperation("update", tableName, data, conditions, init,
                           update(init.clients, init.ret, tableName, data, conditions))

Read ==
    /\ CanInitialize
    /\ \E tableName \in Tables, conditions \in ConditionInputs, outcome \in Outcomes :
         LET init == LazyInitialize(outcome)
         IN  DataOperation("read", tableName, Undef, conditions, init,
                           read(init.clients, init.ret, tableName, conditions))

Delete ==
    /\ CanInitialize
    /\ \E tableName \in Tables, conditions \in ConditionInputs, outcome \in Outcomes :
         LET init == LazyInitialize(outcome)
         IN  DataOperation("delete", tableName, Undef, conditions, init,
                           delete(init.clients, init.ret, tableName, conditions))

Query ==
    /\ CanInitialize
    /\ \E q \in QueryInputs, outcome \in Outcomes :
         LET init == LazyInitialize(outcome)
         IN  DataOperation("query", q.stmt.table, Undef, Undef, init,
                           query(init.clients, init.ret, q.stmt, q.params))

\* accessor.disconnect(), of either instance
Disconnect ==
    /\ Idle
    /\ LET r == closeConnection(factoryClient, clients)
       IN  /\ clients' = r.clients
           /\ factoryClient' = r.factoryClient
    /\ lastCall' = Call("disconnect", "", Undef, Undef, "", Undef, <<>>)
    /\ UNCHANGED <<cacheVars, client, dbVars, faults, envVars, peer, tasks>>

\* the caller takes the result of the call
Return ==
    /\ ~Idle
    /\ lastCall' = NoCall
    /\ UNCHANGED <<cacheVars, client, factoryClient, clients, dbVars, faults, envVars, peer, tasks>>

Next ==
    \/ Initialize
    \/ AddTable
    \/ FilterWithTableColumnName
    \/ ToConditionClause
    \/ Upsert
    \/ Update
    \/ Read
    \/ Delete
    \/ Query
    \/ Disconnect
    \/ Return

Spec == Init /\ [][Next]_vars

\* ------------------------------------------------------------------------
\* The connection on its own: two accessor instances and direct callers of
\* the factory, with either PGClientFactory class loaded and an environment
\* that loses and regains its variables
\* ------------------------------------------------------------------------
\* PGClientFactory.getPGClient() called directly
GetPGClient ==
    /\ Idle
    /\ CanConstruct
    /\ \E outcome \in (IF factoryClient = 0 /\ faults < MaxFaults
                       THEN ConnectOutcomes ELSE {"ok"}) :
         LET init == getPGClient(factoryClient, clients, outcome)
         IN  /\ factoryClient' = init.factoryClient
             /\ clients' = init.clients
             /\ faults' = IF init.err = "ConnectionError" THEN faults + 1 ELSE faults
             /\ lastCall' = Call("getPGClient", "", Undef, Undef, init.err,
                                 IF init.err = "" THEN Num(init.ret) ELSE Undef, <<>>)
    /\ UNCHANGED <<cacheVars, client, dbVars, envVars, peer, tasks>>

\* initialize() of the second accessor instance
PeerInitialize ==
    /\ Idle
    /\ CanConstruct
    /\ \E outcome \in (IF factoryClient = 0 /\ faults < MaxFaults
                       THEN ConnectOutcomes ELSE {"ok"}) :
         LET init == getPGClient(factoryClient, clients, outcome)
         IN  /\ factoryClient' = init.factoryClient
             /\ clients' = init.clients
             /\ peer' = IF init.err = "" THEN init.ret ELSE peer
             /\ faults' = IF init.err = "ConnectionError" THEN faults + 1 ELSE faults
             /\ lastCall' = Call("peerInitialize", "", Undef, Undef, init.err, Undef, <<>>)
    /\ UNCHANGED <<cacheVars, client, dbVars, envVars, tasks>>

\* a required variable is deleted from process.env
UnsetEnv ==
    /\ Idle
    /\ Cardinality(RequiredEnvVars \ processEnv) < MaxMissing
    /\ \E v \in processEnv : processEnv' = processEnv \ {v}
    /\ UNCHANGED <<cacheVars, client, factoryClient, clients, dbVars, faults, lastCall,
                   factoryCopy, peer, tasks>>

\* the variables are set again
LoadEnv ==
    /\ Idle
    /\ processEnv # RequiredEnvVars
    /\ processEnv' = RequiredEnvVars
    /\ UNCHANGED <<cacheVars, client, factoryClient, clients, dbVars, faults, lastCall,
                   factoryCopy, peer, tasks>>

FactoryInit ==
    /\ columnsMap = EmptyMap
    /\ uniqueColumnsMap = EmptyMap
    /\ primaryKeyColumnsMap = EmptyMap
    /\ client = 0
    /\ factoryClient = 0
    /\ clients = <<>>
    /\ database = [t \in TestTables |-> <<>>]
    /\ writes = 0
    /\ faults = 0
    /\ lastCall = NoCall
    /\ processEnv = RequiredEnvVars
    /\ factoryCopy \in FactoryCopies
    /\ peer = 0
    /\ tasks = [i \in Tasks |-> NoTask]

FactoryNext ==
    \/ Initialize
    \/ PeerInitialize
    \/ GetPGClient
    \/ Disconnect
    \/ UnsetEnv
    \/ LoadEnv
    \/ Return

FactorySpec == FactoryInit /\ [][FactoryNext]_vars

\* ------------------------------------------------------------------------
\* Calls that overlap: addTable started on one accessor while another
\* addTable is in progress.  A call runs from one await of an I/O result to
\* the next in one step; tasks[i].pc is what call i awaits: the connection
\* ("connecting"), the SET search_path statement ("searchPath"), the promise
\* of a getPGClient that found a stored client ("initialized"), or one of
\* its three catalog lookups.
\* ------------------------------------------------------------------------
\* getPGClient up to its first await: [err, awaiting, handle, factoryClient,
\* clients]; awaiting is whether it awaits client.connect()
getPGClientBegin(fc, cl) ==
    LET missingVars == RequiredEnvVars \ ProcessEnv
        id == Len(cl) + 1
    IN  IF factoryCopy = "later" /\ missingVars # {}
        THEN [err |-> "ConfigurationError", awaiting |-> FALSE, handle |-> 0,
              factoryClient |-> fc, clients |-> cl]
        ELSE IF fc = 0
        THEN [err |-> "", awaiting |-> TRUE, handle |-> id, factoryClient |-> id,
              clients |-> Append(cl, [connected |-> FALSE, ended |-> FALSE])]
        ELSE [err |-> "", awaiting |-> FALSE, handle |-> fc,
              factoryClient |-> fc, clients |-> cl]

Task(pc, tableName, handle, err) ==
    [pc |-> pc, table |-> tableName, handle |-> handle, err |-> err]

\* the map a lookup writes
MapOf(kind) ==
    CASE kind = "COLUMNS" -> columnsMap
      [] kind = "UNIQUE" -> uniqueColumnsMap
      [] OTHER -> primaryKeyColumnsMap

\* what addTable awaits after a lookup
AfterLookup(kind) ==
    CASE kind = "COLUMNS" -> "UNIQUE"
      [] kind = "UNIQUE" -> "PRIMARY KEY"
      [] OTHER -> "done"

\* the connection attempt of a handle is over, one way or the other
Settled(h) ==
    \/ clients[h].connected
    \/ \A j \in Tasks : ~(tasks[j].pc = "connecting" /\ tasks[j].handle = h)

\* addTable(tableName) is called: it runs to its first await
StartAddTable ==
    \E i \in Tasks, tableName \in Tables :
        /\ tasks[i].pc = "idle"
        /\ client # 0 \/ CanConstruct
        /\ IF client # 0
           THEN /\ tasks' = [tasks EXCEPT ![i] = Task("COLUMNS", tableName, client, "")]
                /\ UNCHANGED <<factoryClient, clients>>
           ELSE LET b == getPGClientBegin(factoryClient, clients)
                IN  /\ factoryClient' = b.factoryClient
                    /\ clients' = b.clients
                    /\ tasks' = [tasks EXCEPT ![i] =
                                    IF b.err # "" THEN Task("failed", tableName, 0, b.err)
                                    ELSE IF b.awaiting
                                    THEN Task("connecting", tableName, b.handle, "")
                                    ELSE Task("initialized", tableName, b.handle, "")]
        /\ UNCHANGED <<cacheVars, client, dbVars, faults, lastCall, envVars, peer>>

\* client.connect() settles; getPGClient goes on to SET search_path
ConnectDone ==
    \E i \in Tasks, ok \in (IF faults < MaxFaults THEN BOOLEAN ELSE {TRUE}) :
        /\ tasks[i].pc = "connecting"
        /\ IF ok
           THEN /\ clients' = [clients EXCEPT ![tasks[i].handle].connected = TRUE]
                /\ tasks' = [tasks EXCEPT ![i].pc = "searchPath"]
                /\ faults' = faults
           ELSE /\ clients' = clients
                /\ tasks' = [tasks EXCEPT ![i].pc = "failed", ![i].err = "ConnectionError"]
                /\ faults' = faults + 1
        /\ UNCHANGED <<cacheVars, client, factoryClient, dbVars, lastCall, envVars, peer>>

\* the SET search_path statement settles; getPGClient returns the client,
\* initialize() stores it and addTable issues its first lookup
SearchPathDone ==
    \E i \in Tasks, ok \in (IF faults < MaxFaults THEN BOOLEAN ELSE {TRUE}) :
        /\ tasks[i].pc = "searchPath"
        /\ IF ok
           THEN /\ client' = tasks[i].handle
                /\ tasks' = [tasks EXCEPT ![i].pc = "COLUMNS"]
                /\ faults' = faults
           ELSE /\ client' = client
                /\ tasks' = [tasks EXCEPT ![i].pc = "failed", ![i].err = "ConnectionError"]
                /\ faults' = faults + 1
        /\ UNCHANGED <<cacheVars, factoryClient, clients, dbVars, lastCall, envVars, peer>>

\* the promise of a getPGClient that returned the stored client resolves;
\* initialize() stores the client and addTable issues its first lookup
ClientReceived ==
    \E i \in Tasks :
        /\ tasks[i].pc = "initialized"
        /\ client' = tasks[i].handle
        /\ tasks' = [tasks EXCEPT ![i].pc = "COLUMNS"]
        /\ UNCHANGED <<cacheVars, factoryClient, clients, dbVars, faults, lastCall,
                       envVars, peer>>

\* a lookup of call i has answered r: the map is set and the next lookup
\* issued, or the call rejects
LookupSettled(i, kind, failed, r) ==
    /\ IF r.err # ""
       THEN /\ tasks' = [tasks EXCEPT ![i].pc = "failed", ![i].err = r.err]
            /\ UNCHANGED cacheVars
       ELSE /\ tasks' = [tasks EXCEPT ![i].pc = AfterLookup(kind)]
            /\ columnsMap' = IF kind = "COLUMNS" THEN r.map ELSE columnsMap
            /\ uniqueColumnsMap' = IF kind = "UNIQUE" THEN r.map ELSE uniqueColumnsMap
            /\ primaryKeyColumnsMap' = IF kind = "PRIMARY KEY" THEN r.map
                                       ELSE primaryKeyColumnsMap
    /\ faults' = IF failed THEN faults + 1 ELSE faults
    /\ UNCHANGED <<client, factoryClient, clients, dbVars, lastCall, envVars, peer>>

\* a catalog lookup settles; the driver holds a query given to a client
\* that is still connecting until the connection attempt is over
LookupDone ==
    \E i \in Tasks, failed \in (IF faults < MaxFaults THEN BOOLEAN ELSE {FALSE}) :
        /\ tasks[i].pc \in {"COLUMNS", "UNIQUE", "PRIMARY KEY"}
        /\ Settled(tasks[i].handle)
        /\ LookupSettled(i, tasks[i].pc, failed,
                         CatalogLookup(tasks[i].pc, MapOf(tasks[i].pc), clients,
                                       tasks[i].handle, tasks[i].table, failed))

\* the caller takes the outcome of a call that has resolved or rejected
Settle ==
    \E i \in Tasks :
        /\ tasks[i].pc \in {"done", "failed"}
        /\ tasks' = [tasks EXCEPT ![i] = NoTask]
        /\ UNCHANGED <<cacheVars, client, factoryClient, clients, dbVars, faults, lastCall,
                       envVars, peer>>

ConcurrentInit ==
    /\ columnsMap = EmptyMap
    /\ uniqueColumnsMap = EmptyMap
    /\ primaryKeyColumnsMap = EmptyMap
    /\ client = 0
    /\ factoryClient = 0
    /\ clients = <<>>
    /\ database = [t \in {"users", "tags"} |-> <<>>]
    /\ writes = 0
    /\ faults = 0
    /\ lastCall = NoCall
    /\ processEnv = RequiredEnvVars
    /\ factoryCopy = "later"
    /\ peer = 0
    /\ tasks = [i \in Tasks |-> NoTask]

ConcurrentNext ==
    \/ StartAddTable
    \/ ConnectDone
    \/ SearchPathDone
    \/ ClientReceived
    \/ LookupDone
    \/ Settle

ConcurrentSpec == ConcurrentInit /\ [][ConcurrentNext]_vars

\* ------------------------------------------------------------------------
\* The accessor on a database whose only table has two separate UNIQUE
\* constraints and no primary key
\* ------------------------------------------------------------------------
LinksInit ==
    /\ columnsMap = EmptyMap
    /\ uniqueColumnsMap = EmptyMap
    /\ primaryKeyColumnsMap = EmptyMap
    /\ client = 0
    /\ factoryClient = 0
    /\ clients = <<>>
    /\ database = [t \in {"links"} |-> <<>>]
    /\ writes = 0
    /\ faults = 0
    /\ lastCall = NoCall
    /\ processEnv = RequiredEnvVars
    /\ factoryCopy = "later"
    /\ peer = 0
    /\ tasks = [i \in Tasks |-> NoTask]

LinksSpec == LinksInit /\ [][Next]_vars

\* ------------------------------------------------------------------------
\* The accessor on a database whose only table has no constraint and holds
\* two rows
\* ------------------------------------------------------------------------
LogsInit ==
    /\ columnsMap = EmptyMap
    /\ uniqueColumnsMap = EmptyMap
    /\ primaryKeyColumnsMap = EmptyMap
    /\ client = 0
    /\ factoryClient = 0
    /\ clients = <<>>
    /\ database = [t \in {"logs"} |-> <<LogRow(Str("J")), LogRow(Str("K"))>>]
    /\ writes = 0
    /\ faults = 0
    /\ lastCall = NoCall
    /\ processEnv = RequiredEnvVars
    /\ factoryCopy = "later"
    /\ peer = 0
    /\ tasks = [i \in Tasks |-> NoTask]

LogsSpec == LogsInit /\ [][Next]_vars

\* ------------------------------------------------------------------------
\* ObjectUtility on its own: camelToSnakeCase on every string of up to
\* MaxLen characters of a small alphabet, and on values that are no strings;
\* convertObjectToFlat on objects nested up to three levels deep
\* ------------------------------------------------------------------------
Alphabet == {"a", "1", "B", "C"}
Strings(n) == UNION {[1..k -> Alphabet] : k \in 0..n}
NameInputs == {Str(str) : str \in Strings(MaxLen)} \cup {Null, Undef, Num(123), Obj(<<>>)}

\* values that convertObjectToFlat assigns without looking into them
LeafInputs == {Null, Undef, Num(1), Arr(<<Obj(<< <<K_id, Num(1)>> >>)>>)}
InnermostInputs ==
    {Obj(<<>>)} \cup {Obj(<< <<k, v>> >>) : k \in {K_id, K_googleId}, v \in {Num(2), Null}}
NestedInputs ==
    {Obj(<<>>)} \cup {Obj(<< <<k, v>> >>) : k \in {K_id, K_google},
                                           v \in {Num(3)} \cup InnermostInputs}
ValueInputs == LeafInputs \cup NestedInputs
FlatKeyInputs == {K_id, K_google, K_googleId, K_google_id}
ObjectInputs ==
    {Null, Undef, Str("x"), Obj(<<>>)}
    \cup {Obj(<< <<k, v>> >>) : k \in FlatKeyInputs, v \in ValueInputs}
    \cup {Obj(<< <<e[1], e[3]>>, <<e[2], e[4]>> >>) :
             e \in {x \in FlatKeyInputs \X FlatKeyInputs \X ValueInputs \X ValueInputs :
                       x[1] # x[2]}}

\* objectUtility.camelToSnakeCase(str)
CamelToSnakeCase ==
    /\ Idle
    /\ \E str \in NameInputs :
         lastCall' = IF str[1] # "string"
                     THEN Call("camelToSnakeCase", "", str, Undef, "InvalidArgument",
                               Undef, <<>>)
                     ELSE Call("camelToSnakeCase", "", str, Undef, "",
                               Str(camelToSnakeCase(str[2])), <<>>)
    /\ UNCHANGED <<cacheVars, client, factoryClient, clients, dbVars, faults, envVars, peer, tasks>>

\* objectUtility.convertObjectToFlat(obj)
ConvertObjectToFlat ==
    /\ Idle
    /\ \E obj \in ObjectInputs :
         LET r == convertObjectToFlat(obj)
         IN  lastCall' = Call("convertObjectToFlat", "", obj, Undef, r.err,
                              IF r.err = "" THEN Obj(r.val) ELSE Undef, <<>>)
    /\ UNCHANGED <<cacheVars, client, factoryClient, clients, dbVars, faults, envVars, peer, tasks>>

UtilityNext ==
    \/ CamelToSnakeCase
    \/ ConvertObjectToFlat
    \/ Return

UtilitySpec == Init /\ [][UtilityNext]_vars

\* ------------------------------------------------------------------------
\* Properties
\* ------------------------------------------------------------------------
DataOps == {"upsert", "update", "read", "delete"}
\* the call got past lazy initialization: the accessor holds a handle
Initialized == client # 0
\* the statement the call issued, when it issued one
TheStatement == lastCall.issued[1].stmt
TheParams == lastCall.issued[1].params
\* the cached list of a table is absent or empty
NoneCached(map, t) == t \notin DOMAIN map \/ map[t] = <<>>
\* what filtering the call's data leaves
FilteredOfCall == filterWithTableColumnName(columnsMap, lastCall.data, lastCall.table)
FilterLeavesNothing == FilteredOfCall.err = "" /\ FilteredOfCall.val = <<>>
FilterLeavesSomething == FilteredOfCall.err = "" /\ FilteredOfCall.val # <<>>

\* C1: the conflict target of the statement upsert emits is the cached
\* primary-key columns whenever that list is non-empty, and the cached unique
\* columns only when the primary-key list is absent or empty.
C1_ConflictTargetPrefersPrimaryKey ==
    (lastCall.op = "upsert" /\ lastCall.issued # <<>>) =>
        LET t == lastCall.table
        IN  IF ~NoneCached(primaryKeyColumnsMap, t)
            THEN TheStatement.conflict = primaryKeyColumnsMap[t]
            ELSE /\ t \in DOMAIN uniqueColumnsMap
                 /\ TheStatement.conflict = uniqueColumnsMap[t]

\* C1 witness: an upsert was emitted for a table with both lists non-empty
\* and different, and one for a table with an empty primary-key list
C1_WitnessBothCached ==
    /\ lastCall.op = "upsert" /\ lastCall.issued # <<>>
    /\ ~NoneCached(primaryKeyColumnsMap, lastCall.table)
    /\ ~NoneCached(uniqueColumnsMap, lastCall.table)
    /\ uniqueColumnsMap[lastCall.table] # primaryKeyColumnsMap[lastCall.table]
    /\ TheStatement.conflict = <<K_id>>

\* C2: a successful upsert returns a single row object, the first row the
\* connection returned, which is the row the statement wrote.
C2_UpsertReturnsFirstRow ==
    (lastCall.op = "upsert" /\ lastCall.err = "" /\ lastCall.issued # <<>>) =>
        /\ lastCall.ret[1] = "object"
        /\ \E k \in 1..Len(database[lastCall.table]) :
               database[lastCall.table][k] = lastCall.ret[2]

\* C3: the parameter list upsert passes to the connection is exactly the
\* filtered data values in filtered-key order, whatever the conditions are.
C3_UpsertParamsAreFilteredValues ==
    (lastCall.op = "upsert" /\ lastCall.issued # <<>>) =>
        /\ Len(TheParams) = Len(TheStatement.columns)
        /\ TheParams = ObjValues(FilteredOfCall.val)

\* the table was discovered: addTable has cached all three lists
Discovered(t) == /\ t \in DOMAIN columnsMap
                 /\ t \in DOMAIN uniqueColumnsMap
                 /\ t \in DOMAIN primaryKeyColumnsMap
\* the data gives a column of a UNIQUE constraint the value an existing row has
MatchesExistingRow(t, flat) ==
    \E c \in Range(Schema(t).unique) : \E k \in 1..Len(database[t]) :
        \A i \in 1..Len(c) : /\ ~IsNullish(ObjGet(flat, c[i]))
                             /\ ObjGet(flat, c[i]) = ObjGet(database[t][k], c[i])

\* C4: on a discovered table, upsert of data whose unique-constraint column
\* value equals that of an existing row updates that row and never fails
\* with a uniqueness violation, also when the data supplies no primary key.
C4_UpsertNeverViolatesUnique ==
    (/\ lastCall.op = "upsert"
     /\ lastCall.table \in ExistingTables
     /\ Discovered(lastCall.table)
     /\ FilterLeavesSomething
     /\ MatchesExistingRow(lastCall.table, FilteredOfCall.val)) =>
        lastCall.err # "UniqueViolation"

\* C5: every data operation on a table whose columns were never cached
\* fails with the schema-not-discovered error and issues no statement.
C5_UndiscoveredTableFailsFast ==
    (/\ lastCall.op \in DataOps
     /\ Initialized
     /\ lastCall.table \notin DOMAIN columnsMap) =>
        /\ lastCall.err = "SchemaNotDiscovered"
        /\ lastCall.issued = <<>>

\* C6: when filtering the data leaves zero columns, upsert and update fail
\* with the no-valid-columns error and issue no statement; for upsert this
\* comes before the unique-constraint check.
C6_NoValidColumns ==
    (/\ lastCall.op \in {"upsert", "update"}
     /\ Initialized
     /\ FilterLeavesNothing) =>
        /\ lastCall.err = "NoValidColumns"
        /\ lastCall.issued = <<>>

\* C6 witness: an upsert with nothing left after filtering, on a table that
\* has neither a primary key nor a unique constraint cached
C6_WitnessBeforeUniqueCheck ==
    /\ lastCall.op = "upsert"
    /\ Initialized
    /\ lastCall.table \in DOMAIN columnsMap
    /\ lastCall.data # Undef
    /\ FilterLeavesNothing
    /\ NoneCached(primaryKeyColumnsMap, lastCall.table)
    /\ NoneCached(uniqueColumnsMap, lastCall.table)
    /\ lastCall.err = "NoValidColumns"

\* C7 as claimed: upsert on a table whose cached primary-key and unique
\* lists are both absent or empty fails with the no-unique-constraint error
\* and issues no statement.
C7_Original_NoUniqueConstraint ==
    (/\ lastCall.op = "upsert"
     /\ Initialized
     /\ NoneCached(primaryKeyColumnsMap, lastCall.table)
     /\ NoneCached(uniqueColumnsMap, lastCall.table)) =>
        /\ lastCall.err = "NoUniqueConstraint"
        /\ lastCall.issued = <<>>

\* C7 as amended: upsert whose data filters to a non-empty set of columns,
\* on a table whose cached primary-key and unique lists are both absent or
\* empty, fails with the no-unique-constraint error and issues no statement.
C7_NoUniqueConstraint ==
    (/\ lastCall.op = "upsert"
     /\ Initialized
     /\ FilterLeavesSomething
     /\ NoneCached(primaryKeyColumnsMap, lastCall.table)
     /\ NoneCached(uniqueColumnsMap, lastCall.table)) =>
        /\ lastCall.err = "NoUniqueConstraint"
        /\ lastCall.issued = <<>>

\* C7 witness: such an upsert on a table whose two lists are cached, empty
C7_WitnessEmptyLists ==
    /\ lastCall.op = "upsert"
    /\ Initialized
    /\ FilterLeavesSomething
    /\ Discovered(lastCall.table)
    /\ primaryKeyColumnsMap[lastCall.table] = <<>>
    /\ uniqueColumnsMap[lastCall.table] = <<>>
    /\ lastCall.err = "NoUniqueConstraint"

\* C8: filterWithTableColumnName returns exactly the pairs of the flattened
\* data whose key is a cached column and whose value is not undefined: every
\* returned key is a column, no such pair is omitted (null is retained) and
\* the values are unchanged.
C8_FilterKeepsExactlyKnownColumns ==
    (/\ lastCall.op = "filterWithTableColumnName"
     /\ lastCall.err = ""
     /\ Truthy(lastCall.data)) =>
        LET flat == convertObjectToFlat(lastCall.data).val
            columns == columnsMap[lastCall.table]
            out == lastCall.ret[2]
        IN  /\ \A i \in 1..Len(out) :
                   /\ Includes(columns, out[i][1])
                   /\ out[i][2] # Undef
                   /\ \E j \in 1..Len(flat) : flat[j] = out[i]
            /\ \A j \in 1..Len(flat) :
                   (Includes(columns, flat[j][1]) /\ flat[j][2] # Undef) =>
                       \E i \in 1..Len(out) : out[i] = flat[j]
            /\ \A i, k \in 1..Len(out) : out[i][1] = out[k][1] => i = k

\* C8 witness: a call that kept a null value and dropped a pair
C8_WitnessNullKept ==
    /\ lastCall.op = "filterWithTableColumnName"
    /\ lastCall.err = ""
    /\ Truthy(lastCall.data)
    /\ \E i \in 1..Len(lastCall.ret[2]) : lastCall.ret[2][i][2] = Null
    /\ Len(lastCall.ret[2]) < Len(convertObjectToFlat(lastCall.data).val)

\* the entries of the conditions that are not skipped: value neither null
\* nor undefined
KeptEntries(conditions) ==
    IF Truthy(conditions)
    THEN SelectSeq(conditions[2], LAMBDA e : e[2] # Null /\ e[2] # Undef)
    ELSE <<>>
\* an {operator, value} object
IsOperatorObject(value) ==
    value[1] = "object" /\ HasKey(value[2], K_operator)
                        /\ Truthy(ObjGet(value[2], K_operator))

\* C9: toConditionClause visits the conditions in insertion order; the k-th
\* entry that is not skipped gives the k-th fragment ' AND field operator $k'
\* and the k-th parameter, with '=' for a plain value and the given operator
\* for an {operator, value} object; skipped entries take no index, and empty
\* or absent conditions give ('', []).
C9_ConditionClauseIsSequential ==
    lastCall.op = "toConditionClause" =>
        LET kept == KeptEntries(lastCall.conditions)
            whereClause == lastCall.ret[2]
            params == lastCall.ret[3]
        IN  /\ Len(whereClause) = Len(kept)
            /\ Len(params) = Len(kept)
            /\ \A k \in 1..Len(kept) :
                   /\ whereClause[k].field = kept[k][1]
                   /\ whereClause[k].index = k
                   /\ IF IsOperatorObject(kept[k][2])
                      THEN /\ whereClause[k].operator = ObjGet(kept[k][2][2], K_operator)
                           /\ params[k] = ObjGet(kept[k][2][2], K_value)
                      ELSE /\ whereClause[k].operator = Str("=")
                           /\ params[k] = kept[k][2]

\* C9 witness: a call where a skipped entry precedes one that is kept, whose
\* fragment has index 1
C9_WitnessSkippedTakesNoIndex ==
    /\ lastCall.op = "toConditionClause"
    /\ Truthy(lastCall.conditions)
    /\ Len(lastCall.conditions[2]) = 2
    /\ lastCall.conditions[2][1][2] = Null
    /\ Len(lastCall.ret[2]) = 1
    /\ lastCall.ret[2][1].index = 1
    /\ lastCall.ret[2][1].field = lastCall.conditions[2][2][1]

\* C10: no null or undefined value is ever bound as a condition parameter,
\* also not the value of an {operator, value} entry.
C10_NoNullParameter ==
    lastCall.op = "toConditionClause" =>
        \A i \in 1..Len(lastCall.ret[3]) :
            lastCall.ret[3][i] # Null /\ lastCall.ret[3][i] # Undef

\* the values of the conditions that are not skipped, in condition order
ConditionValues(conditions) ==
    LET kept == KeptEntries(conditions)
    IN  [k \in 1..Len(kept) |->
            IF IsOperatorObject(kept[k][2]) THEN ObjGet(kept[k][2][2], K_value)
            ELSE kept[k][2]]

Replaced(old, new, t, names) ==
    /\ DOMAIN new = DOMAIN old \cup {t}
    /\ new[t] = names
    /\ \A o \in DOMAIN old \ {t} : new[o] = old[o]

LookupKinds == <<"COLUMNS", "UNIQUE", "PRIMARY KEY">>

\* C14: if the k-th catalog lookup of addTable fails, addTable rejects, the
\* later lookups are not attempted, the entries written by the earlier
\* lookups keep their new values and the entries of the failed and the later
\* lookups keep their prior values.
C14_AddTableFailureKeepsEarlier ==
    [][(lastCall'.op = "addTable" /\ lastCall'.err # "" /\ lastCall'.issued # <<>>) =>
          LET t == lastCall'.table
              k == Len(lastCall'.issued)
          IN  /\ k <= 3
              /\ \A i \in 1..k : lastCall'.issued[i].stmt.verb = LookupKinds[i]
              /\ IF k > 1 THEN Replaced(columnsMap, columnsMap', t, Schema(t).columns)
                 ELSE columnsMap' = columnsMap
              /\ IF k > 2
                 THEN Replaced(uniqueColumnsMap, uniqueColumnsMap', t,
                               Flatten(Schema(t).unique))
                 ELSE uniqueColumnsMap' = uniqueColumnsMap
              /\ primaryKeyColumnsMap' = primaryKeyColumnsMap]_vars

\* C14 witness: addTable failed at its second lookup; the columns are
\* cached, the unique columns and the primary key are not
C14_WitnessSecondLookupFails ==
    /\ lastCall.op = "addTable"
    /\ lastCall.err # ""
    /\ Len(lastCall.issued) = 2
    /\ lastCall.table \in DOMAIN columnsMap
    /\ lastCall.table \notin DOMAIN uniqueColumnsMap
    /\ lastCall.table \notin DOMAIN primaryKeyColumnsMap

\* C15: when a catalog lookup of addTable fails, the error delivered to the
\* caller is a schema-discovery error that carries the table name and the
\* underlying cause.
C15_SchemaDiscoveryError ==
    (/\ lastCall.op = "addTable"
     /\ lastCall.err # ""
     /\ lastCall.issued # <<>>) =>
        lastCall.err = "SchemaDiscoveryError"

\* C16: addTable(t) rejects when t does not exist in the database; it does
\* not complete successfully with an empty column list cached for t.
C16_AddTableRejectsMissingTable ==
    (/\ lastCall.op = "addTable"
     /\ lastCall.issued # <<>>
     /\ lastCall.table \notin ExistingTables) =>
        /\ lastCall.err # ""
        /\ ~(lastCall.table \in DOMAIN columnsMap /\ columnsMap[lastCall.table] = <<>>)

\* the cached column names of a table
CachedColumns(t) == IF t \in DOMAIN columnsMap THEN Range(columnsMap[t]) ELSE {}

\* C17: in every statement read, update, delete and upsert emit, no key of
\* the data or of the conditions and no operator string of the caller is in
\* the SQL text unless it is a cached column name of the table: every column
\* identifier comes from the catalog and every operator is the code's '='.
C17_NoCallerTextInStatement ==
    (lastCall.op \in DataOps /\ lastCall.issued # <<>> /\ Discovered(lastCall.table)) =>
        /\ \A c \in Range(TheStatement.columns) : c \in CachedColumns(lastCall.table)
        /\ \A i \in 1..Len(TheStatement.set) :
               TheStatement.set[i][1] \in CachedColumns(lastCall.table)
        /\ \A i \in 1..Len(TheStatement.where) :
               /\ TheStatement.where[i].field \in CachedColumns(lastCall.table)
               /\ TheStatement.where[i].operator = Str("=")

\* the calls that go to PGClientFactory.getPGClient
FactoryCalls == {"initialize", "peerInitialize", "getPGClient"}
\* the Client objects on which end() has not been called
Live(cl) == {i \in 1..Len(cl) : ~cl[i].ended}

\* C18: across getPGClient calls, made directly or through initialize of any
\* accessor instance, with no closeConnection in between, at most one client
\* is constructed and every call that returns gives that same handle.
C18_OneSharedClient ==
    [][lastCall'.op \in FactoryCalls =>
          /\ factoryClient # 0 => (clients' = clients /\ factoryClient' = factoryClient)
          /\ Len(clients') <= Len(clients) + 1
          /\ Cardinality(Live(clients')) <= 1
          /\ lastCall'.err = "" =>
                 /\ factoryClient' # 0
                 /\ lastCall'.op = "initialize" => client' = factoryClient'
                 /\ lastCall'.op = "peerInitialize" => peer' = factoryClient'
                 /\ lastCall'.op = "getPGClient" => lastCall'.ret = Num(factoryClient')]_vars

\* C18 witness: the second accessor instance has initialized after the first
\* and both hold the one client constructed
C18_WitnessTwoAccessors ==
    /\ lastCall.op = "peerInitialize"
    /\ lastCall.err = ""
    /\ client # 0
    /\ peer = client
    /\ factoryClient = client
    /\ Len(clients) = 1

\* C19: if one of the six required settings is missing, getPGClient fails
\* with a configuration error before a client is constructed or a connect is
\* attempted, and the stored shared client is left unchanged.
C19_ConfigurationError ==
    [][(lastCall'.op \in FactoryCalls /\ processEnv # RequiredEnvVars) =>
          /\ lastCall'.err = "ConfigurationError"
          /\ clients' = clients
          /\ factoryClient' = factoryClient]_vars

\* C20: disconnect is idempotent: of consecutive disconnect calls the first
\* calls end() on the connected shared handle, once, and resets the shared
\* handle to none; a call made when no handle exists or the handle is not
\* connected calls no end() and raises no error.
C20_DisconnectIdempotent ==
    [][lastCall'.op = "disconnect" =>
          /\ lastCall'.err = ""
          /\ IF factoryClient # 0 /\ clients[factoryClient].connected
             THEN /\ ~clients[factoryClient].ended
                  /\ clients' = [clients EXCEPT ![factoryClient].ended = TRUE]
                  /\ factoryClient' = 0
             ELSE /\ clients' = clients
                  /\ factoryClient' = factoryClient]_vars

\* C20 witness: a disconnect made when the shared handle was already reset
\* by an earlier disconnect that ended the only client
C20_WitnessAfterEnd ==
    /\ lastCall.op = "disconnect"
    /\ lastCall.err = ""
    /\ factoryClient = 0
    /\ Len(clients) = 1
    /\ clients[1].ended

\* ------------------------------------------------------------------------
\* Lazy initialization
\* ------------------------------------------------------------------------
\* the operations that need the connection
ConnectionOps == DataOps \cup {"addTable", "query"}

\* C21: an operation that needs the connection and is called while the
\* accessor holds no handle takes the provider's handle before it issues a
\* statement (or fails with the provider's error, nothing issued); called
\* while a handle is held, it keeps that handle and leaves the provider alone.
C21_LazyInitialization ==
    [][lastCall'.op \in ConnectionOps =>
         IF client = 0
         THEN \/ client' # 0 /\ client' = factoryClient'
              \/ /\ client' = 0
                 /\ lastCall'.issued = <<>>
                 /\ lastCall'.err \in {"ConnectionError", "ConfigurationError"}
         ELSE /\ client' = client
              /\ factoryClient' = factoryClient
              /\ clients' = clients]_vars

\* a read on the handle the accessor holds, after disconnect() has reset the
\* provider: no second client has been constructed
C21_WitnessHeldHandleKept ==
    /\ lastCall.op = "read"
    /\ lastCall.issued # <<>>
    /\ client = 1
    /\ factoryClient = 0
    /\ Len(clients) = 1

\* ------------------------------------------------------------------------
\* ObjectUtility
\* ------------------------------------------------------------------------
\* a camelCase identifier: letters and digits, the first no capital
IsCamelCase(str) ==
    /\ str # <<>>
    /\ \A i \in 1..Len(str) : IsUpper(str[i]) \/ IsLowerOrDigit(str[i])
    /\ ~IsUpper(str[1])

\* a capital that directly follows a lower-case letter or a digit
IsTransition(str, i) == i > 1 /\ IsUpper(str[i]) /\ IsLowerOrDigit(str[i - 1])

RECURSIVE SnakeAtTransitions(_, _)
\* str from i on, lower-cased, with one underscore at each transition
SnakeAtTransitions(str, i) ==
    IF i > Len(str) THEN <<>>
    ELSE (IF IsTransition(str, i) THEN <<"_">> ELSE <<>>)
         \o <<ToLowerChar(str[i])>> \o SnakeAtTransitions(str, i + 1)

\* C22: for a camelCase identifier of ASCII letters and digits, the result of
\* camelToSnakeCase is the identifier in lower case with one underscore at
\* each place where a capital directly follows a lower-case letter or a
\* digit, and no underscore anywhere else.
C22_UnderscoresAtTransitions ==
    (/\ lastCall.op = "camelToSnakeCase"
     /\ lastCall.err = ""
     /\ IsCamelCase(lastCall.data[2]))
    => lastCall.ret = Str(SnakeAtTransitions(lastCall.data[2], 1))

RECURSIVE JoinKeys(_)
\* the keys of a path joined with '_'
JoinKeys(path) ==
    IF Len(path) = 1 THEN path[1]
    ELSE path[1] \o <<"_">> \o JoinKeys(Tail(path))

RECURSIVE Leaves(_, _)
\* the leaves of an object in the order of its keys: <<path, value>>, where a
\* leaf is a value that is no plain object
Leaves(pairs, path) ==
    IF pairs = <<>> THEN <<>>
    ELSE LET here == Append(path, Head(pairs)[1])
             val == Head(pairs)[2]
         IN  (IF IsObject(val) THEN Leaves(val[2], here) ELSE << <<here, val>> >>)
             \o Leaves(Tail(pairs), path)

LeafKey(leaf) == camelToSnakeCase(JoinKeys(leaf[1]))

\* C23: the result of convertObjectToFlat on a nested plain object has one
\* entry for each key that is the snake-cased '_'-join of the path of a leaf;
\* the entry's value is that leaf's value (the last such leaf's where two
\* paths give one key); arrays and scalars, null and undefined included, are
\* leaves; and no value of the result is a plain object.
C23_FlattenIsSingleLevel ==
    (/\ lastCall.op = "convertObjectToFlat"
     /\ IsObject(lastCall.data))
    => LET leaves == Leaves(lastCall.data[2], <<>>)
           flat == lastCall.ret[2]
           last(key) == CHOOSE i \in 1..Len(leaves) :
                            /\ LeafKey(leaves[i]) = key
                            /\ \A j \in (i + 1)..Len(leaves) : LeafKey(leaves[j]) # key
       IN  /\ lastCall.err = ""
           /\ \A i \in 1..Len(leaves) :
                  /\ HasKey(flat, LeafKey(leaves[i]))
                  /\ ObjGet(flat, LeafKey(leaves[i])) = leaves[last(LeafKey(leaves[i]))][2]
           /\ \A k \in 1..Len(flat) :
                  /\ \E i \in 1..Len(leaves) : LeafKey(leaves[i]) = flat[k][1]
                  /\ ~IsObject(flat[k][2])
                  /\ \A j \in 1..Len(flat) : flat[j][1] = flat[k][1] => j = k

\* {google: {id: {googleId: 2}}, id: [{id: 1}]}: a leaf three keys deep and
\* an array with an object in it
C23_WitnessThreeLevels ==
    /\ lastCall.op = "convertObjectToFlat"
    /\ lastCall.data =
           Obj(<< <<K_google, Obj(<< <<K_id, Obj(<< <<K_googleId, Num(2)>> >>)>> >>)>>,
                  <<K_id, Arr(<<Obj(<< <<K_id, Num(1)>> >>)>>)>> >>)
    /\ lastCall.ret =
           Obj(<< <<K_google \o <<"_">> \o K_id \o <<"_">> \o K_google_id, Num(2)>>,
                  <<K_id, Arr(<<Obj(<< <<K_id, Num(1)>> >>)>>)>> >>)

\* ------------------------------------------------------------------------
\* Placeholders
\* ------------------------------------------------------------------------
\* the placeholder indices $k that occur in the text of a statement
Placeholders(stmt) ==
    Range(stmt.values)
    \cup {stmt.set[i][2] : i \in 1..Len(stmt.set)}
    \cup {stmt.where[i].index : i \in 1..Len(stmt.where)}

\* C24: in a statement issued by read, update, delete or upsert the
\* placeholders are exactly $1..$n for the n parameters passed with it, the
\* i-th SET / VALUES column is bound to the i-th data value, and the k-th
\* condition clause is bound to the value of the k-th condition that is not
\* skipped.
C24_PlaceholdersMatchParams ==
    (/\ lastCall.op \in DataOps
     /\ Initialized
     /\ lastCall.issued # <<>>) =>
        LET values == IF lastCall.op \in {"upsert", "update"}
                      THEN ObjValues(FilteredOfCall.val) ELSE <<>>
            conditionValues == ConditionValues(lastCall.conditions)
        IN  /\ Placeholders(TheStatement) = 1..Len(TheParams)
            /\ Len(TheStatement.set) = Len(values)
            /\ \A i \in 1..Len(TheStatement.set) :
                   /\ TheStatement.set[i][2] \in 1..Len(TheParams)
                   /\ TheParams[TheStatement.set[i][2]] = values[i]
            /\ \A i \in 1..Len(TheStatement.values) :
                   /\ TheStatement.values[i] \in 1..Len(TheParams)
                   /\ TheParams[TheStatement.values[i]] = values[i]
            /\ Len(TheStatement.where) = Len(conditionValues)
            /\ \A k \in 1..Len(TheStatement.where) :
                   /\ TheStatement.where[k].index \in 1..Len(TheParams)
                   /\ TheParams[TheStatement.where[k].index] = conditionValues[k]

\* ------------------------------------------------------------------------
\* The handle after disconnect and after a failed connection
\* ------------------------------------------------------------------------
\* C25: the handle an operation issues its statements on (the accessor's
\* handle) is never one on which end() has been called.
C25_NoStatementAfterEnd ==
    (/\ lastCall.op \in ConnectionOps
     /\ Initialized
     /\ lastCall.issued # <<>>) => ~clients[client].ended

\* C26: a handle that getPGClient returns, to a direct caller or to
\* initialize(), has completed connect.
C26_ReturnedHandleIsConnected ==
    (/\ lastCall.op \in FactoryCalls
     /\ lastCall.err = ""
     /\ factoryClient # 0) => clients[factoryClient].connected

\* ------------------------------------------------------------------------
\* Unrestricted delete and update
\* ------------------------------------------------------------------------
\* the rows with the SET list of an update applied to each
AllUpdated(rows, filtered) ==
    [i \in 1..Len(rows) |->
        ApplySet(rows[i], [k \in 1..Len(filtered) |-> <<filtered[k][1], k>>],
                 ObjValues(filtered))]

\* C28: a delete or an update (with data that leaves columns) whose
\* conditions are omitted, empty or all null / undefined issues a statement
\* with nothing after 'WHERE 1 = 1' and no condition parameter, and raises
\* no error of its own; on an existing table and a live connection the
\* delete removes and returns every row of the table, and the update, if the
\* database accepts it, changes and returns every row.
C28_UnrestrictedAppliesToEveryRow ==
    [][LET t == lastCall'.table
           filtered == filterWithTableColumnName(columnsMap, lastCall'.data, t)
           live == t \in ExistingTables /\ clients'[client'].connected
                                        /\ ~clients'[client'].ended
       IN  (/\ lastCall'.op \in {"delete", "update"}
            /\ client' # 0
            /\ ConditionValues(lastCall'.conditions) = <<>>
            /\ lastCall'.op = "update" => filtered.err = "" /\ filtered.val # <<>>)
           => /\ Len(lastCall'.issued) = 1
              /\ lastCall'.issued[1].stmt.where = <<>>
              /\ lastCall'.op = "delete" =>
                     /\ lastCall'.issued[1].params = <<>>
                     /\ live => /\ lastCall'.err = ""
                                /\ lastCall'.ret = Arr(database[t])
                                /\ database'[t] = <<>>
              /\ lastCall'.op = "update" =>
                     /\ lastCall'.issued[1].params = ObjValues(filtered.val)
                     /\ (live /\ lastCall'.err = "") =>
                            /\ database'[t] = AllUpdated(database[t], filtered.val)
                            /\ lastCall'.ret = Arr(database'[t])]_vars

\* a delete with conditions {age: null, email: undefined} that has removed
\* and returned both rows of the table
C28_WitnessAllRowsDeleted ==
    /\ lastCall.op = "delete"
    /\ lastCall.table = "logs"
    /\ lastCall.conditions = Obj(<< <<K_age, Null>>, <<K_email, Undef>> >>)
    /\ lastCall.err = ""
    /\ lastCall.ret = Arr(<<LogRow(Str("J")), LogRow(Str("K"))>>)
    /\ database["logs"] = <<>>

\* ------------------------------------------------------------------------
\* The conflict target and the constraints of the table
\* ------------------------------------------------------------------------
\* C29: the conflict-target column list of a statement upsert issues is the
\* column set of one constraint of the table, its primary key or one of its
\* UNIQUE constraints, never the columns of several constraints together.
C29_ConflictTargetIsOneConstraint ==
    (/\ lastCall.op = "upsert"
     /\ Initialized
     /\ lastCall.issued # <<>>)
    => \E c \in Constraints(lastCall.table) : Range(TheStatement.conflict) = Range(c)

\* ------------------------------------------------------------------------
\* Overlapping calls
\* ------------------------------------------------------------------------
\* the call has been given a handle by getPGClient
HasReceived(task) == task.pc \in {"initialized", "COLUMNS", "UNIQUE", "PRIMARY KEY", "done"}
\* the call is setting up the handle: connect or SET search_path is pending
IsSettingUp(task) == task.pc \in {"connecting", "searchPath"}

\* C27: when getPGClient calls overlap, no caller holds the shared handle or
\* has a statement issued on it while the connect or the search-path
\* statement of that handle is still pending.
C27_HandleReadyBeforeUse ==
    \A i \in Tasks, j \in Tasks :
        (HasReceived(tasks[i]) /\ IsSettingUp(tasks[j]))
        => tasks[j].handle # tasks[i].handle

\* what the lookups of a table answer, as the catalog has it
OwnLookup(kind, t) ==
    CASE kind = "COLUMNS" -> Schema(t).columns
      [] kind = "UNIQUE" -> Flatten(Schema(t).unique)
      [] OTHER -> Schema(t).primaryKey

\* C30: with addTable calls in progress at the same time, under every
\* interleaving of their lookups, a cache entry of a table changes only when
\* a lookup of a call for that table answers, never by a call for another
\* table, and when a call has resolved the three entries of its table are
\* the answers of that table's lookups.
C30_ConcurrentAddTableKeyIndependence ==
    [][/\ \A t \in Tables, k \in 1..3 :
             LET kind == LookupKinds[k]
                 old == MapGet(MapOf(kind), t)
                 new == MapGet(MapOf(kind)', t)
             IN  new # old =>
                    \E i \in Tasks : /\ tasks[i].table = t
                                     /\ tasks[i].pc = kind
                                     /\ tasks'[i].pc = AfterLookup(kind)
                                     /\ new = Arr(OwnLookup(kind, t))
       /\ \A i \in Tasks :
             tasks'[i].pc = "done" =>
                \A k \in 1..3 :
                    MapGet(MapOf(LookupKinds[k])', tasks'[i].table)
                        = Arr(OwnLookup(LookupKinds[k], tasks'[i].table))]_vars

\* two calls in progress at once, for users and for tags, each with entries
\* written and a lookup pending
C30_WitnessBothInProgress ==
    /\ tasks[1].pc = "UNIQUE" /\ tasks[1].table = "users"
    /\ tasks[2].pc = "PRIMARY KEY" /\ tasks[2].table = "tags"
    /\ columnsMap["users"] = Schema("users").columns
    /\ columnsMap["tags"] = Schema("tags").columns
    /\ uniqueColumnsMap["tags"] = <<K_name>>
    /\ "users" \notin DOMAIN uniqueColumnsMap

====
